---- MODULE Spec2Model ----
(***************************************************************************)
(* Model of the OpenAPI gateway-specification generator (tools/openapi):   *)
(* the type schema builder and route analyzer (controller-analyzer.ts),    *)
(* the Nx workspace discovery and per-service generation                   *)
(* (nx-workspace-discovery), the assembler (openapi-generator.ts), the     *)
(* Google Cloud enhancer (google-cloud-enhancer) and the entry point       *)
(* (index.ts).                                                             *)
(*                                                                         *)
(* Strings on which the code does character work (paths, project names,    *)
(* environment keys) are sequences of one-character strings.  Names that   *)
(* are only compared (type names, property names) are TLA+ strings.        *)
(***************************************************************************)
EXTENDS Integers, Sequences, FiniteSets, TLC

VARIABLES
    \* --- type schema builder (one schema dictionary, a sequence of calls)
    schemas,        \* the SchemaDictionary handed to generateSchemaForType
    calls,          \* the root types resolved so far, in call order
    results,        \* what each call returned
    overflowed,     \* TRUE once a call exceeded the call stack
    \* --- route analyzer (one decorated controller method)
    ctlBasePath,    \* the string given to @Controller
    ctlRoutePath,   \* the string given to the HTTP decorator
    ctlParams,      \* the decorated arguments of the method
    route,          \* the ControllerRoute analyzeRouteMethod returned
    pathItem,       \* the entry buildPathsFromControllers made of it
    \* --- what a run of main() reads
    configEnv,      \* BACKEND_PROTOCOL and RATE_LIMIT_PER_MINUTE of process.env
    graph,          \* the project graph `nx graph` wrote
    env,            \* the other entries of process.env, in Object.entries order
    files,          \* the *.controller.ts files under each project root
    \* --- the fields of NxBasedOpenApiGenerator
    projects,       \* Map of project name to NxProjectConfig, in insertion order
    serviceConfigs, \* Map of project name to InternalServiceConfig
    apiProjects,    \* the ApiProject array
    \* --- main(): its position and its locals
    pc,
    config,
    services,
    documents,
    combinedDocument,
    swaggerDocument,
    enhancedSpec,
    outputFile,     \* what writeSwaggerDocument wrote
    exitCode,
    log             \* what console.error reported

resolveVars == <<schemas, calls, results, overflowed>>

routeVars == <<ctlBasePath, ctlRoutePath, ctlParams, route, pathItem>>

inputVars == <<configEnv, graph, env, files>>

generatorVars == <<projects, serviceConfigs, apiProjects>>

mainVars == <<pc, config, services, documents, combinedDocument,
              swaggerDocument, enhancedSpec, outputFile, exitCode, log>>

pipelineVars == <<inputVars, generatorVars, mainVars>>

vars == <<resolveVars, routeVars, pipelineVars>>

----------------------------------------------------------------------------
(* Bounds *)

\* Deepest chain of nested generateSchemaForType calls that is followed
\* before the call stack is taken to be exhausted (RangeError).
MaxDepth == 8

\* Number of generateSchemaForType calls made on one dictionary.
MaxCalls == 3

\* Most segments in a @Controller prefix and in an HTTP-decorator sub-path.
MaxBaseSegs == 1
MaxRouteSegs == 2

\* Most projects in the project graph, most *_BACKEND_URL variables set.
MaxProjects == 3
MaxEnvVars == 2

\* Most services handed to the enhancer when it is exercised on its own.
MaxServices == 2

----------------------------------------------------------------------------
(* The TypeScript types seen through the TypeChecker.                      *)
(* Each entry lists what generateSchemaForType reads of a ts.Type:         *)
(* its symbol name, its number index type, its printed name, its type      *)
(* flags, whether it is a class or interface, and its properties.          *)

NoType == "<none>"

Prop(n, decl, opt, t) ==
    [name |-> n, hasValueDeclaration |-> decl, optional |-> opt, type |-> t]

Ty(sym, idx, flags, cls, props) ==
    [symbolName |-> sym, numberIndexType |-> idx, flags |-> flags,
     isClassOrInterface |-> cls, properties |-> props]

\* The class User that the orders application declares in a file of its own;
\* the TypeChecker prints it as "User", like the library's class.
OrdersUser == "User (apps/api-o)"

\*   class User     { name: string; age?: number; manager: User;
\*                    created: Date; tags: string[] }
\*   class Order    { id: number; customer: Customer; items: Item[] }
\*   class Customer { active: boolean; lastOrder?: Order }
\*   class Item     { sku: string; total(): number }
\*   class Empty    { }
\*   class User     { email: string }          (apps/api-o, its own file)
\*   interface Tree extends Array<Tree> { }
\*   string carries lib.es5's  readonly [index: number]: string
\*   number and boolean carry the methods of lib.es5's Number and Boolean,
\*   of which valueOf stands for all
TypeTable ==
    [t \in {"string", "number", "boolean", "Date", "User", "Order",
            "Customer", "Item", "Empty", "Tree", "string[]", "Item[]",
            "User[]", "User[][]", "() => number", "() => boolean",
            OrdersUser} |->
        CASE t = "string"   -> Ty("String", "string", "String", FALSE, <<>>)
          [] t = "number"   -> Ty("Number", NoType, "Number", FALSE,
                                 << Prop("valueOf", TRUE, FALSE, "() => number") >>)
          [] t = "boolean"  -> Ty("Boolean", NoType, "Boolean", FALSE,
                                 << Prop("valueOf", TRUE, FALSE, "() => boolean") >>)
          [] t = "Date"     -> Ty("Date", NoType, "Object", TRUE, <<>>)
          [] t = "User"     -> Ty("User", NoType, "Object", TRUE,
                                 << Prop("name", TRUE, FALSE, "string"),
                                    Prop("age", TRUE, TRUE, "number"),
                                    Prop("manager", TRUE, FALSE, "User"),
                                    Prop("created", TRUE, FALSE, "Date"),
                                    Prop("tags", TRUE, FALSE, "string[]") >>)
          [] t = "Order"    -> Ty("Order", NoType, "Object", TRUE,
                                 << Prop("id", TRUE, FALSE, "number"),
                                    Prop("customer", TRUE, FALSE, "Customer"),
                                    Prop("items", TRUE, FALSE, "Item[]") >>)
          [] t = "Customer" -> Ty("Customer", NoType, "Object", TRUE,
                                 << Prop("active", TRUE, FALSE, "boolean"),
                                    Prop("lastOrder", TRUE, TRUE, "Order") >>)
          [] t = "Item"     -> Ty("Item", NoType, "Object", TRUE,
                                 << Prop("sku", TRUE, FALSE, "string"),
                                    Prop("total", TRUE, FALSE, "() => number") >>)
          [] t = "Empty"    -> Ty("Empty", NoType, "Object", TRUE, <<>>)
          [] t = "Tree"     -> Ty("Tree", "Tree", "Object", TRUE, <<>>)
          [] t = "string[]" -> Ty("Array", "string", "Object", FALSE, <<>>)
          [] t = "Item[]"   -> Ty("Array", "Item", "Object", FALSE, <<>>)
          [] t = "User[]"   -> Ty("Array", "User", "Object", FALSE, <<>>)
          [] t = "User[][]" -> Ty("Array", "User[]", "Object", FALSE, <<>>)
          [] t = OrdersUser -> Ty("User", NoType, "Object", TRUE,
                                 << Prop("email", TRUE, FALSE, "string") >>)
          [] OTHER          -> Ty("__type", NoType, "Object", FALSE, <<>>)]

TypeIds == DOMAIN TypeTable

\* typeChecker.typeToString(type): a class prints as its name, every other
\* type of the table is keyed by its printed form.
typeToString(t) == IF t = OrdersUser THEN "User" ELSE t

----------------------------------------------------------------------------
(* Schema values *)

Placeholder == [kind |-> "placeholder"]

RefPrefix == "#/definitions/"

\* A reference in the form of the newer dialect.
Ref_Components(n) ==
    [kind |-> "ref", prefix |-> "#/components/schemas/", name |-> n]

\* { $ref: `#/definitions/${typeName}` }
Ref(n) == [kind |-> "ref", prefix |-> RefPrefix, name |-> n]

Primitive(t) == [kind |-> "primitive", type |-> t, format |-> "none"]

DateTime == [kind |-> "primitive", type |-> "string", format |-> "date-time"]

ArrayOf(s) == [kind |-> "array", items |-> s]

\* `required` is left off the object when no name was collected; the empty
\* sequence stands for the absent field.
ObjectSchema(properties, required) ==
    [kind |-> "object", properties |-> properties, required |-> required]

EmptyMap == [x \in {} |-> Placeholder]

Put(m, k, v) == [x \in (DOMAIN m) \cup {k} |-> IF x = k THEN v ELSE m[x]]

\* The schema builder at rest: an empty dictionary and no call made.
ResolveIdle ==
    /\ schemas = EmptyMap
    /\ calls = <<>>
    /\ results = <<>>
    /\ overflowed = FALSE

----------------------------------------------------------------------------
(* generateSchemaForType *)

\* schemas[typeName] is truthy: the key is present (every value stored is an
\* object, and an empty object is truthy).
AlreadyRegistered(dict, typeName) == typeName \in DOMAIN dict

\* The final write is lost and the placeholder stays.
CompletedSchema_Unfilled(properties, required) == Placeholder

\* What is stored under the type's name once its properties are walked.
CompletedSchema(properties, required) == ObjectSchema(properties, required)

RECURSIVE generateSchemaForType(_, _, _)
RECURSIVE WalkProperties(_, _, _, _)

\* One iteration per property of the type; acc carries the properties and
\* required collected so far, the dictionary, and the overflow mark.
WalkProperties(t, i, acc, depth) ==
    IF i > Len(TypeTable[t].properties) \/ acc.overflow THEN acc
    ELSE
      LET p     == TypeTable[t].properties[i]
          pt    == TypeTable[p.type]
          req   == IF p.optional THEN acc.required
                   ELSE Append(acc.required, p.name)
      IN
      IF ~p.hasValueDeclaration
        THEN WalkProperties(t, i + 1, acc, depth)
      ELSE IF pt.flags = "String"
        THEN WalkProperties(t, i + 1,
               [acc EXCEPT !.required = req,
                  !.properties = Put(@, p.name, Primitive("string"))], depth)
      ELSE IF pt.flags = "Number"
        THEN WalkProperties(t, i + 1,
               [acc EXCEPT !.required = req,
                  !.properties = Put(@, p.name, Primitive("number"))], depth)
      ELSE IF pt.flags = "Boolean"
        THEN WalkProperties(t, i + 1,
               [acc EXCEPT !.required = req,
                  !.properties = Put(@, p.name, Primitive("boolean"))], depth)
      ELSE IF pt.isClassOrInterface
        THEN IF typeToString(p.type) = typeToString(t)
               THEN WalkProperties(t, i + 1,
                      [acc EXCEPT !.required = req,
                         !.properties = Put(@, p.name, Ref(typeToString(p.type)))],
                      depth)
               ELSE LET r == generateSchemaForType(p.type, acc.schemas, depth + 1)
                    IN  IF r.overflow
                          THEN [acc EXCEPT !.schemas = r.schemas,
                                           !.overflow = TRUE]
                          ELSE WalkProperties(t, i + 1,
                                 [acc EXCEPT !.required = req,
                                    !.schemas = r.schemas,
                                    !.properties = Put(@, p.name, r.schema)],
                                 depth)
      ELSE IF TypeTable[t].numberIndexType # NoType
        \* tests the owning type, which has no number index type here
        THEN LET r == generateSchemaForType(TypeTable[t].numberIndexType,
                                            acc.schemas, depth + 1)
             IN  IF r.overflow
                   THEN [acc EXCEPT !.schemas = r.schemas, !.overflow = TRUE]
                   ELSE WalkProperties(t, i + 1,
                          [acc EXCEPT !.required = req,
                             !.schemas = r.schemas,
                             !.properties = Put(@, p.name, ArrayOf(r.schema))],
                          depth)
      ELSE WalkProperties(t, i + 1, [acc EXCEPT !.required = req], depth)

\* Returns the schema or reference, the dictionary as the call left it, and
\* whether the call stack was exhausted on the way.
generateSchemaForType(t, dict, depth) ==
    IF depth > MaxDepth
      THEN [schema |-> Placeholder, schemas |-> dict, overflow |-> TRUE]
    ELSE IF TypeTable[t].symbolName = "Date"
      THEN [schema |-> DateTime, schemas |-> dict, overflow |-> FALSE]
    ELSE IF TypeTable[t].numberIndexType # NoType
      THEN LET r == generateSchemaForType(TypeTable[t].numberIndexType,
                                          dict, depth + 1)
           IN  [schema |-> ArrayOf(r.schema), schemas |-> r.schemas,
                overflow |-> r.overflow]
    ELSE LET typeName == typeToString(t) IN
      IF AlreadyRegistered(dict, typeName)
        THEN [schema |-> Ref(typeName), schemas |-> dict, overflow |-> FALSE]
        ELSE LET w == WalkProperties(t, 1,
                        [properties |-> EmptyMap, required |-> <<>>,
                         schemas |-> Put(dict, typeName, Placeholder),
                         overflow |-> FALSE], depth)
             IN  IF w.overflow
                   THEN [schema |-> Placeholder, schemas |-> w.schemas,
                         overflow |-> TRUE]
                   ELSE [schema |-> Ref(typeName),
                         schemas |-> Put(w.schemas, typeName,
                                         CompletedSchema(w.properties, w.required)),
                         overflow |-> FALSE]

----------------------------------------------------------------------------
(* Character strings *)

WordChars == {"i", "u"}

SeqsUpTo(S, n) == UNION { [1..k -> S] : k \in 0..n }

\* What stands between the slashes of a decorator string.
Segments ==
    { <<>>, <<"x">>, <<":", "i">>, <<":", "u">>, <<"x", ":", "i">>,
      <<":", "i", "-", ":", "u">>, <<":">> }

RECURSIVE JoinSegments(_, _)
JoinSegments(q, i) ==
    IF i > Len(q) THEN <<>>
    ELSE IF i = Len(q) THEN q[i]
    ELSE q[i] \o <<"/">> \o JoinSegments(q, i + 1)

\* The decorator strings of at most n segments.
PathsUpTo(n) == { JoinSegments(q, 1) : q \in SeqsUpTo(Segments, n) }

startsWith(s, p) ==
    /\ Len(p) <= Len(s)
    /\ SubSeq(s, 1, Len(p)) = p

\* Last index of the run of word characters that begins at i.
RECURSIVE WordRunEnd(_, _)
WordRunEnd(s, i) ==
    IF i < Len(s) /\ s[i + 1] \in WordChars THEN WordRunEnd(s, i + 1) ELSE i

\* s.match(/:(\w+)/g) with the colon cut off each match (param.substring(1)):
\* the names of the placeholders of s, left to right.
RECURSIVE PlaceholderNames(_, _)
PlaceholderNames(s, i) ==
    IF i > Len(s) THEN <<>>
    ELSE IF s[i] = ":" /\ i < Len(s) /\ s[i + 1] \in WordChars
      THEN LET e == WordRunEnd(s, i + 1)
           IN  <<SubSeq(s, i + 1, e)>> \o PlaceholderNames(s, e + 1)
      ELSE PlaceholderNames(s, i + 1)

\* s.replace(/:(\w+)/g, '{$1}')
RECURSIVE BracePlaceholders(_, _)
BracePlaceholders(s, i) ==
    IF i > Len(s) THEN <<>>
    ELSE IF s[i] = ":" /\ i < Len(s) /\ s[i + 1] \in WordChars
      THEN LET e == WordRunEnd(s, i + 1)
           IN  <<"{">> \o SubSeq(s, i + 1, e) \o <<"}">>
                 \o BracePlaceholders(s, e + 1)
      ELSE <<s[i]>> \o BracePlaceholders(s, i + 1)

----------------------------------------------------------------------------
(* Route analyzer *)

buildFullPath(basePath, routePath) ==
    LET cleanBasePath  == IF startsWith(basePath, <<"/">>) THEN basePath
                          ELSE <<"/">> \o basePath
        cleanRoutePath == IF startsWith(routePath, <<"/">>) THEN routePath
                          ELSE <<"/">> \o routePath
    IN  IF routePath = <<>> THEN cleanBasePath
        ELSE cleanBasePath \o cleanRoutePath

NoSchema == [kind |-> "none"]

\* One decorated argument after the other, from the i-th on: @Body() of a
\* declared type gives the body parameter, @Query() a query parameter,
\* anything else nothing.
RECURSIVE ArgumentParameters(_, _, _)
ArgumentParameters(args, i, schemasSoFar) ==
    LET Push(param, rest) ==
            [parameters |-> <<param>> \o rest.parameters,
             schemas |-> rest.schemas, overflow |-> rest.overflow]
        Body(r) ==
            IF r.overflow
              THEN [parameters |-> <<>>, schemas |-> r.schemas,
                    overflow |-> TRUE]
              ELSE Push([name |-> <<"body">>, in |-> "body",
                         required |-> TRUE, schema |-> r.schema],
                        ArgumentParameters(args, i + 1, r.schemas))
    IN  IF i > Len(args)
          THEN [parameters |-> <<>>, schemas |-> schemasSoFar,
                overflow |-> FALSE]
        ELSE IF args[i].decorator = "Body"
          THEN Body(generateSchemaForType(args[i].type, schemasSoFar, 1))
        ELSE IF args[i].decorator = "Query"
          THEN Push([name |-> args[i].name, in |-> "query",
                     required |-> FALSE, schema |-> Primitive("string")],
                    ArgumentParameters(args, i + 1, schemasSoFar))
        ELSE ArgumentParameters(args, i + 1, schemasSoFar)

\* The path parameters of the placeholders of routePath come first, then
\* the parameters of the arguments.
extractParameters(args, routePath, dict) ==
    LET PathParameters(names) ==
            [k \in 1..Len(names) |->
               [name |-> names[k], in |-> "path", required |-> TRUE,
                schema |-> Primitive("string")]]
        AfterPathParameters(a) ==
            [a EXCEPT !.parameters =
               PathParameters(PlaceholderNames(routePath, 1)) \o @]
    IN  AfterPathParameters(ArgumentParameters(args, 1, dict))

\* One RouteResponse per @ApiResponse decorator, from the i-th on, each type
\* resolved on the dictionary the one before left.
RECURSIVE ApiResponses(_, _, _)
ApiResponses(decorators, i, schemasSoFar) ==
    LET Push(resp, rest) ==
            [responses |-> <<resp>> \o rest.responses,
             schemas |-> rest.schemas, overflow |-> rest.overflow]
        Response(d, r) ==
            IF r.overflow
              THEN [responses |-> <<>>, schemas |-> r.schemas,
                    overflow |-> TRUE]
              ELSE Push([statusCode |-> d.status, description |-> "Success",
                         schema |-> r.schema],
                        ApiResponses(decorators, i + 1, r.schemas))
    IN  IF i > Len(decorators)
          THEN [responses |-> <<>>, schemas |-> schemasSoFar,
                overflow |-> FALSE]
        ELSE Response(decorators[i],
               IF decorators[i].type = NoType
                 THEN [schema |-> NoSchema, schemas |-> schemasSoFar,
                       overflow |-> FALSE]
                 ELSE generateSchemaForType(decorators[i].type,
                                            schemasSoFar, 1))

\* A method without decorator gets the default response.
extractResponses(decorators, dict) ==
    LET Default(a) ==
            IF ~a.overflow /\ a.responses = <<>>
              THEN [a EXCEPT !.responses =
                      <<[statusCode |-> "200", description |-> "Success",
                         schema |-> NoSchema]>>]
              ELSE a
    IN  Default(ApiResponses(decorators, 1, dict))

\* The route once its parameters are known: its responses are resolved on
\* the dictionary the parameters left.
RouteAfterParameters(method, basePath, controllerClassName, ps) ==
    LET Route(rs) ==
            [route |-> [path |-> buildFullPath(basePath, method.routePath),
                        method |-> method.http,
                        operationId |-> <<controllerClassName, method.name>>,
                        tags |-> {},
                        parameters |-> ps.parameters,
                        responses |-> rs.responses],
             schemas |-> rs.schemas,
             overflow |-> rs.overflow]
    IN  Route(IF ps.overflow
                THEN [responses |-> <<>>, schemas |-> ps.schemas,
                      overflow |-> TRUE]
                ELSE extractResponses(method.responses, ps.schemas))

\* method: [name, http, routePath, args, responses] of one decorated method.
\* The path is made of prefix and sub-path, the parameters of the sub-path.
analyzeRouteMethod(method, basePath, dict, controllerClassName) ==
    RouteAfterParameters(method, basePath, controllerClassName,
      extractParameters(method.args, method.routePath, dict))

\* The decorated methods of the class, from the i-th on; the routes get the
\* tags of the controller.
RECURSIVE AnalyzeMethods(_, _, _)
AnalyzeMethods(decl, i, acc) ==
    LET Push(r) ==
            AnalyzeMethods(decl, i + 1,
              [routes |-> IF r.overflow THEN acc.routes
                          ELSE Append(acc.routes,
                                      [r.route EXCEPT !.tags = decl.tags]),
               schemas |-> r.schemas,
               overflow |-> r.overflow])
    IN  IF i > Len(decl.methods) \/ acc.overflow THEN acc
        ELSE Push(analyzeRouteMethod(decl.methods[i], decl.basePath,
                                     acc.schemas, decl.className))

\* decl: [className, basePath, tags, methods] of one controller file.  Every
\* file has a schema dictionary of its own, shared by its methods.
analyzeControllerFile(decl) ==
    LET ControllerInfo(a) ==
            [basePath |-> decl.basePath, routes |-> a.routes,
             tags |-> decl.tags, schemas |-> a.schemas,
             overflow |-> a.overflow]
    IN  ControllerInfo(AnalyzeMethods(decl, 1,
                         [routes |-> <<>>, schemas |-> EmptyMap,
                          overflow |-> FALSE]))

----------------------------------------------------------------------------
(* buildPathsFromControllers *)

NoBackend == [address |-> "<absent>", protocol |-> "<absent>",
              path_translation |-> "<absent>"]

NoSecurity == <<>>

\* Another name for the synthesized route.
HealthSuffix_Status == <<"/", "s", "t", "a", "t", "u", "s">>

HealthSuffix == <<"/", "h", "e", "a", "l", "t", "h">>

HealthOperation ==
    [summary |-> "Health check",
     operationId |-> <<"healthCheck">>,
     tags |-> {"health"},
     parameters |-> <<>>,
     responses |-> [c \in {"200"} |->
                      [description |-> "Service is healthy",
                       schema |-> ObjectSchema(
                                    [n \in {"status", "service"} |->
                                       Primitive("string")], <<>>)]],
     backend |-> NoBackend,
     security |-> NoSecurity]

EmptyPathItem == [m \in {} |-> HealthOperation]

\* Every parameter keeps its schema nested, as the body parameter does.
SwaggerParameter_Nested(param) ==
    [name |-> param.name, in |-> param.in, required |-> param.required,
     schema |-> param.schema, type |-> "<absent>"]

\* A body parameter keeps its schema; any other has the fields of its schema
\* spread at its top level (a reference is dropped).
SwaggerParameter(param) ==
    IF param.in = "body"
      THEN [name |-> param.name, in |-> param.in,
            required |-> param.required, schema |-> param.schema,
            type |-> "<absent>"]
    ELSE IF param.schema.kind = "ref"
      THEN [name |-> param.name, in |-> param.in,
            required |-> param.required, schema |-> NoSchema,
            type |-> "<absent>"]
    ELSE [name |-> param.name, in |-> param.in,
          required |-> param.required, schema |-> NoSchema,
          type |-> param.schema.type]

\* The health route of the service, then every route of every controller
\* under its own path: paths[fullPath][route.method] = operation.
buildPathsFromControllers(controllers, serviceBasePath) ==
    LET \* A later response with the same status replaces an earlier one.
        RECURSIVE FinalResponses(_, _, _)
        FinalResponses(responses, i, acc) ==
            IF i > Len(responses) THEN acc
            ELSE FinalResponses(responses, i + 1,
                   Put(acc, responses[i].statusCode,
                       [description |-> responses[i].description,
                        schema |-> responses[i].schema]))
        Operation(r) ==
            [summary |-> "route",
             operationId |-> r.operationId,
             tags |-> r.tags,
             parameters |-> [k \in 1..Len(r.parameters) |->
                               SwaggerParameter(r.parameters[k])],
             responses |-> FinalResponses(r.responses, 1,
                             [c \in {} |-> [description |-> "",
                                            schema |-> NoSchema]]),
             backend |-> NoBackend,
             security |-> NoSecurity]
        \* route.path.replace(/:(\w+)/g, '{$1}'), with a leading slash
        FullPath(path) ==
            IF startsWith(BracePlaceholders(path, 1), <<"/">>)
              THEN BracePlaceholders(path, 1)
              ELSE <<"/">> \o BracePlaceholders(path, 1)
        File(paths, fullPath, method, operation) ==
            Put(paths, fullPath,
                Put(IF fullPath \in DOMAIN paths THEN paths[fullPath]
                    ELSE EmptyPathItem,
                    method, operation))
        RECURSIVE Routes(_, _, _)
        Routes(routes, i, paths) ==
            IF i > Len(routes) THEN paths
            ELSE Routes(routes, i + 1,
                   File(paths, FullPath(routes[i].path), routes[i].method,
                        Operation(routes[i])))
        RECURSIVE Controllers(_, _)
        Controllers(i, paths) ==
            IF i > Len(controllers) THEN paths
            ELSE Controllers(i + 1, Routes(controllers[i].routes, 1, paths))
    IN  Controllers(1, [k \in {serviceBasePath \o HealthSuffix} |->
                          [m \in {"get"} |-> HealthOperation]])

----------------------------------------------------------------------------
(* More character strings *)

Undefined == "<undefined>"

\* A string or undefined taken as a condition.
Truthy(s) == s # Undefined /\ s # ""

\* No project: what findMatchingApiProject returns for null.
Null == <<"<null>">>

endsWith(s, p) ==
    /\ Len(p) <= Len(s)
    /\ SubSeq(s, Len(s) - Len(p) + 1, Len(s)) = p

\* The positions at which p occurs in s.
Occurrences(s, p) ==
    { i \in 1..(Len(s) - Len(p) + 1) : SubSeq(s, i, i + Len(p) - 1) = p }

includes(s, p) == Occurrences(s, p) # {}

FirstOf(S) == CHOOSE i \in S : \A j \in S : i <= j

\* s.replace(p, r) with a string pattern: the first occurrence only.
replace(s, p, r) ==
    IF includes(s, p)
      THEN SubSeq(s, 1, FirstOf(Occurrences(s, p)) - 1) \o r
             \o SubSeq(s, FirstOf(Occurrences(s, p)) + Len(p), Len(s))
      ELSE s

\* s.replace(/c/g, r) for a one-character pattern.
replaceEach(s, c, r) == [i \in 1..Len(s) |-> IF s[i] = c THEN r ELSE s[i]]

toLowerCase(s) ==
    LET lower == [c \in {"U", "O", "D"} |->
                    CASE c = "U" -> "u" [] c = "O" -> "o" [] c = "D" -> "d"]
    IN  [i \in 1..Len(s) |->
           IF s[i] \in DOMAIN lower THEN lower[s[i]] ELSE s[i]]

toUpperCase(s) ==
    LET upper == [c \in {"u", "o", "d"} |->
                    CASE c = "u" -> "U" [] c = "o" -> "O" [] c = "d" -> "D"]
    IN  [i \in 1..Len(s) |->
           IF s[i] \in DOMAIN upper THEN upper[s[i]] ELSE s[i]]

\* Object.assign(target, source) on two string-keyed objects.
ObjectAssign(target, source) ==
    [k \in (DOMAIN target) \cup (DOMAIN source) |->
       IF k \in DOMAIN source THEN source[k] ELSE target[k]]

\* A Map as the sequence of its entries in insertion order: set() of a key
\* that is present replaces the value where it stands.
MapHas(m, key) == \E i \in 1..Len(m) : m[i].key = key

MapSet(m, key, value) ==
    IF MapHas(m, key)
      THEN [i \in 1..Len(m) |->
              IF m[i].key = key THEN [key |-> key, value |-> value] ELSE m[i]]
      ELSE Append(m, [key |-> key, value |-> value])

MapGet(m, key, absent) ==
    IF MapHas(m, key)
      THEN m[CHOOSE i \in 1..Len(m) : m[i].key = key].value
      ELSE absent
----------------------------------------------------------------------------
(* The workspace a run finds: project graph, environment, controller files *)

ApiPrefix == <<"a", "p", "i", "-">>

E2eSuffix == <<"-", "e", "2", "e">>

ApiU  == ApiPrefix \o <<"u">>
ApiO  == ApiPrefix \o <<"o">>
ApiOD == ApiPrefix \o <<"o", "-", "d">>
LibD  == <<"d">>

GatewayTag == "scope:gcp-gateway"

GraphNode(name, root, projectType, tags) ==
    [name |-> name,
     data |-> [root |-> root, projectType |-> projectType, tags |-> tags]]

\* Three tagged applications and one library.
NodeCatalogue ==
    { GraphNode(ApiU, <<"apps/">> \o ApiU, "application", {GatewayTag}),
      GraphNode(ApiO, <<"apps/">> \o ApiO, "application", {GatewayTag}),
      GraphNode(ApiOD, <<"apps/">> \o ApiOD, "application", {GatewayTag}),
      GraphNode(LibD, <<"libs/">> \o LibD, "library", {}) }

\* Every application depends on an npm package; api-u depends on api-o,
\* api-o on the library, and api-o-d on no project of the workspace.
DependencyCatalogue ==
    [n \in {ApiU, ApiO, ApiOD, LibD} |->
       CASE n = ApiU  -> <<[target |-> <<"npm:", "x">>], [target |-> ApiO]>>
         [] n = ApiO  -> <<[target |-> <<"npm:", "x">>], [target |-> LibD]>>
         [] n = ApiOD -> <<[target |-> <<"npm:", "x">>]>>
         [] OTHER     -> <<>>]

\* The keys of an object are distinct.
DistinctNames(q) ==
    \A i, j \in 1..Len(q) : i # j => q[i].name # q[j].name

NodeLists ==
    { q \in SeqsUpTo(NodeCatalogue, MaxProjects) : DistinctNames(q) }

\* A graph file without `nodes`.
InvalidGraph ==
    [hasNodes |-> FALSE, hasDependencies |-> TRUE, nodes |-> <<>>,
     dependencies |-> [n \in {} |-> <<>>]]

\* The graph of the nodes q, with an entry of dependencies for each: the
\* edges of the catalogue to an npm package or to a node of the graph.
GraphOf(q) ==
    LET InGraph(edge) ==
            \/ startsWith(edge.target, <<"npm:">>)
            \/ \E i \in 1..Len(q) : q[i].name = edge.target
    IN  [hasNodes |-> TRUE, hasDependencies |-> TRUE, nodes |-> q,
         dependencies |-> [n \in { q[i].name : i \in 1..Len(q) } |->
                             SelectSeq(DependencyCatalogue[n], InGraph)]]

Graphs == {InvalidGraph} \cup { GraphOf(q) : q \in NodeLists }

BackendUrlSuffix == <<"_BACKEND_URL">>

EnvCatalogue ==
    { [name |-> <<"U">> \o BackendUrlSuffix, value |-> "https://u.run"],
      [name |-> <<"O">> \o BackendUrlSuffix, value |-> "https://o.run"],
      [name |-> <<"O", "_", "D">> \o BackendUrlSuffix,
       value |-> "https://od.run"],
      [name |-> <<"U">> \o BackendUrlSuffix, value |-> "ftp://u.run"] }

\* Joi.string().uri({ scheme: ['http', 'https'] }) on the values the
\* environment can hold here.
serviceUrlSchema ==
    [v \in { e.value : e \in EnvCatalogue } |->
       v \in {"https://u.run", "https://o.run", "https://od.run"}]

Environments ==
    { q \in SeqsUpTo(EnvCatalogue, MaxEnvVars) : DistinctNames(q) }

\* process.env[key]
EnvLookup(e, key) ==
    IF \E i \in 1..Len(e) : e[i].name = key
      THEN e[CHOOSE i \in 1..Len(e) : e[i].name = key].value
      ELSE Undefined

\* libs/d: @Controller('u') class UsersController
\*   @Post() create(@Body() user: User)        @ApiResponse 201 User
\*   @Get(':i') findOne(@Param('i') i: string)
UsersController ==
    [className |-> "UsersController", basePath |-> <<"u">>, tags |-> {"users"},
     methods |->
       << [name |-> "create", http |-> "post", routePath |-> <<>>,
           args |-> <<[decorator |-> "Body", name |-> <<"u">>,
                       type |-> "User"]>>,
           responses |-> <<[status |-> "201", type |-> "User"]>>],
          [name |-> "findOne", http |-> "get", routePath |-> <<":", "i">>,
           args |-> <<[decorator |-> "Param", name |-> <<"i">>,
                       type |-> "string"]>>,
           responses |-> <<>>] >>]

\* apps/api-u: @Controller('x') class AdminController
\*   @Get() list()                             @ApiResponse 200 Order
AdminController ==
    [className |-> "AdminController", basePath |-> <<"x">>, tags |-> {"admin"},
     methods |->
       << [name |-> "list", http |-> "get", routePath |-> <<>>,
           args |-> <<>>,
           responses |-> <<[status |-> "200", type |-> "Order"]>>] >>]

\* apps/api-o: @Controller('x') class OrdersController
\*   @Post() place()                           @ApiResponse 200 User (its own)
OrdersController ==
    [className |-> "OrdersController", basePath |-> <<"x">>, tags |-> {},
     methods |->
       << [name |-> "place", http |-> "post", routePath |-> <<>>,
           args |-> <<>>,
           responses |-> <<[status |-> "200", type |-> OrdersUser]>>] >>]

\* apps/api-o, the other way: @Controller('o') class TreeController
\*   @Get() tree()                             @ApiResponse 200 Tree
TreeController ==
    [className |-> "TreeController", basePath |-> <<"o">>, tags |-> {},
     methods |->
       << [name |-> "tree", http |-> "get", routePath |-> <<>>,
           args |-> <<>>,
           responses |-> <<[status |-> "200", type |-> "Tree"]>>] >>]

\* src/lib/controllers/*.controller.ts under each project root.
FileTree(ordersFiles) ==
    [r \in { n.data.root : n \in NodeCatalogue } |->
       CASE r = <<"libs/">> \o LibD -> <<UsersController>>
         [] r = <<"apps/">> \o ApiU -> <<AdminController>>
         [] r = <<"apps/">> \o ApiO -> ordersFiles
         [] OTHER                   -> <<>>]

FileTrees == { FileTree(<<OrdersController>>), FileTree(<<TreeController>>) }

\* BACKEND_PROTOCOL and RATE_LIMIT_PER_MINUTE as the shell set them; the
\* empty string stands for a variable that is not set.
ConfigEnvironments ==
    [protocol : {"http", "https", "grpc"},
     rateLimitPerMinute : {"", "0", "500", "1000001"}]
----------------------------------------------------------------------------
(* buildConfig *)

DefaultRateLimit == 10000
MinRateLimit == 1
MaxRateLimit == 1000000

\* parseInt on the strings the environment can hold here.
parseInt ==
    [s \in {"0", "500", "10000", "1000001"} |->
       CASE s = "0"       -> 0
         [] s = "500"     -> 500
         [] s = "10000"   -> DefaultRateLimit
         [] s = "1000001" -> MaxRateLimit + 1]

rawConfig(ce) ==
    [protocol |-> ce.protocol,
     rateLimitPerMinute |->
       parseInt[IF ce.rateLimitPerMinute = "" THEN "10000"
                ELSE ce.rateLimitPerMinute]]

\* configSchema.validate: the rules on the two fields modelled.
configSchema(raw) ==
    /\ raw.protocol \in {"http", "https"}
    /\ raw.rateLimitPerMinute >= MinRateLimit
    /\ raw.rateLimitPerMinute <= MaxRateLimit

NoConfig == [protocol |-> Undefined, rateLimitPerMinute |-> 0]

\* The Config, or process.exit(1).
buildConfig(ce) ==
    IF configSchema(rawConfig(ce))
      THEN [exited |-> FALSE, value |-> rawConfig(ce)]
      ELSE [exited |-> TRUE, value |-> NoConfig]

----------------------------------------------------------------------------
(* NxBasedOpenApiGenerator: constructor and discovery *)

\* The graph is taken as it comes, without the test on nodes and
\* dependencies.
loadNxWorkspace_Lenient(g) ==
    [threw |-> FALSE,
     projects |->
       [i \in 1..Len(g.nodes) |->
          [key |-> g.nodes[i].name,
           value |-> [name |-> g.nodes[i].name,
                      root |-> g.nodes[i].data.root,
                      projectType |-> g.nodes[i].data.projectType,
                      tags |-> g.nodes[i].data.tags]]]]

\* The projects Map, or the error thrown for a graph without nodes or
\* dependencies.
loadNxWorkspace(g) ==
    IF ~g.hasNodes \/ ~g.hasDependencies
      THEN [threw |-> TRUE, projects |-> <<>>]
      ELSE [threw |-> FALSE,
            projects |->
              [i \in 1..Len(g.nodes) |->
                 [key |-> g.nodes[i].name,
                  value |-> [name |-> g.nodes[i].name,
                             root |-> g.nodes[i].data.root,
                             projectType |-> g.nodes[i].data.projectType,
                             tags |-> g.nodes[i].data.tags]]]]

\* `api-<serviceName>` if that project exists, else the first project in Map
\* order whose name contains the service name or the other way round.
findMatchingApiProject(serviceName, projs) ==
    LET exactMatch == ApiPrefix \o serviceName
        fallback ==
            { i \in 1..Len(projs) :
                /\ startsWith(projs[i].key, ApiPrefix)
                /\ ~endsWith(projs[i].key, E2eSuffix)
                /\ projs[i].value.projectType = "application"
                /\ \/ includes(projs[i].key, serviceName)
                   \/ includes(serviceName,
                               replace(projs[i].key, ApiPrefix, <<>>)) }
    IN  IF MapHas(projs, exactMatch) /\ ~endsWith(exactMatch, E2eSuffix)
          THEN exactMatch
        ELSE IF fallback # {} THEN projs[FirstOf(fallback)].key
        ELSE Null

\* One entry of process.env after the other: a *_BACKEND_URL variable with a
\* value configures the project its prefix matches.
RECURSIVE loadServiceConfigurations(_, _)
loadServiceConfigurations(e, projs) ==
    LET \* key.match(/^(.+)_BACKEND_URL$/): the prefix, empty for no match
        EnvPrefix(key) ==
            IF Len(key) > 1 /\ endsWith(key, BackendUrlSuffix)
              THEN SubSeq(key, 1, Len(key) - 1)
              ELSE <<>>
        \* envPrefix.toLowerCase().replace(/_/g, '-')
        ServiceName(key) == replaceEach(toLowerCase(EnvPrefix(key)), "_", "-")
        \* `/${serviceName.replace(/^api-/, '')}`
        BasePath(serviceName) ==
            IF startsWith(serviceName, ApiPrefix)
              THEN <<"/">> \o SubSeq(serviceName, Len(ApiPrefix) + 1,
                                     Len(serviceName))
              ELSE <<"/">> \o serviceName
        Configure(configs, entry, matchingProject) ==
            IF EnvPrefix(entry.name) # <<>> /\ entry.value # ""
                 /\ matchingProject # Null
              THEN MapSet(configs, matchingProject,
                          [url |-> entry.value,
                           basePath |-> BasePath(ServiceName(entry.name)),
                           name |-> ServiceName(entry.name),
                           envVar |-> entry.name])
              ELSE configs
    IN  IF e = <<>> THEN <<>>
        ELSE Configure(loadServiceConfigurations(SubSeq(e, 1, Len(e) - 1),
                                                 projs),
                       e[Len(e)],
                       findMatchingApiProject(ServiceName(e[Len(e)].name),
                                              projs))

getProjectDependencies(g, projectName) ==
    LET NotNpm(depName) == ~startsWith(depName, <<"npm:">>)
    IN  IF ~g.hasDependencies \/ projectName \notin DOMAIN g.dependencies
          THEN <<>>
          ELSE SelectSeq([i \in 1..Len(g.dependencies[projectName]) |->
                            g.dependencies[projectName][i].target],
                         NotNpm)

\* serviceConfigs.get() of a project without entry.
NoServiceConfig ==
    [url |-> Undefined, basePath |-> <<>>, name |-> Null, envVar |-> <<>>]

\* this.apiProjects after the call: every tagged application of the Map is
\* pushed, with or without a service configuration, and nothing is cleared
\* first.
RECURSIVE discoverApiProjects(_, _, _, _)
discoverApiProjects(projs, configs, g, found) ==
    LET ApiProject(projectName, projectConfig, serviceConfig) ==
            [name |-> projectName,
             path |-> IF projectConfig.root # <<>> THEN projectConfig.root
                      ELSE <<"apps/">> \o projectName,
             type |-> "application",
             serviceUrl |-> serviceConfig.url,
             basePath |-> IF serviceConfig.basePath # <<>>
                            THEN serviceConfig.basePath
                            ELSE <<"/">> \o replace(projectName, ApiPrefix,
                                                    <<>>),
             dependencies |-> getProjectDependencies(g, projectName)]
        Push(before, entry) ==
            IF /\ entry.value.projectType = "application"
               /\ GatewayTag \in entry.value.tags
              THEN Append(before,
                          ApiProject(entry.key, entry.value,
                                     MapGet(configs, entry.key,
                                            NoServiceConfig)))
              ELSE before
    IN  IF projs = <<>> THEN found
        ELSE Push(discoverApiProjects(SubSeq(projs, 1, Len(projs) - 1),
                                      configs, g, found),
                  projs[Len(projs)])

\* The variable recorded for the project, or the name made from the project.
findEnvVarForProject(projectName, configs) ==
    IF MapHas(configs, projectName)
      THEN MapGet(configs, projectName, NoServiceConfig).envVar
      ELSE toUpperCase(replaceEach(replace(projectName, ApiPrefix, <<>>),
                                   "-", "_")) \o BackendUrlSuffix

\* The services of generateServiceConfigs, given this.apiProjects as its
\* discoverApiProjects left it: one for each project that has a URL.
RECURSIVE generateServiceConfigs(_, _)
generateServiceConfigs(found, configs) ==
    LET ServiceConfig(project) ==
            [name |-> replace(project.name, ApiPrefix, <<>>),
             urlEnvVar |-> findEnvVarForProject(project.name, configs),
             pathPrefix |->
               IF project.basePath # <<>> THEN project.basePath
               ELSE <<"/">> \o replace(project.name, ApiPrefix, <<>>)]
        Push(theServices, project) ==
            IF Truthy(project.serviceUrl)
              THEN Append(theServices, ServiceConfig(project))
              ELSE theServices
    IN  IF found = <<>> THEN <<>>
        ELSE Push(generateServiceConfigs(SubSeq(found, 1, Len(found) - 1),
                                         configs),
                  found[Len(found)])
----------------------------------------------------------------------------
(* Per-service generation *)

NoControllers == [controllers |-> <<>>, threw |-> FALSE]

\* The controllers of the files that have routes, in the order of the files;
\* a RangeError of the analysis of a file is not caught here and ends it.
RECURSIVE analyzeProgram(_)
analyzeProgram(sourceFiles) ==
    LET Keep(controllerInfo, rest) ==
            IF controllerInfo.routes # <<>>
              THEN [rest EXCEPT !.controllers = <<controllerInfo>> \o @]
              ELSE rest
        Next(controllerInfo) ==
            IF controllerInfo.overflow
              THEN [controllers |-> <<>>, threw |-> TRUE]
              ELSE Keep(controllerInfo, analyzeProgram(Tail(sourceFiles)))
    IN  IF sourceFiles = <<>> THEN NoControllers
        ELSE Next(analyzeControllerFile(Head(sourceFiles)))

\* tree: the controller files by project root.
analyzeProjectControllers(tree, projectRoot) ==
    IF projectRoot \notin DOMAIN tree THEN NoControllers
    ELSE IF tree[projectRoot] = <<>> THEN NoControllers
    ELSE analyzeProgram(tree[projectRoot])

\* allControllers after one root more: the controllers found are pushed.
RECURSIVE AnalyzeRoots(_, _)
AnalyzeRoots(tree, roots) ==
    LET Push(all, more) ==
            IF all.threw THEN all
            ELSE [controllers |-> all.controllers \o more.controllers,
                  threw |-> more.threw]
    IN  IF roots = <<>> THEN NoControllers
        ELSE Push(AnalyzeRoots(tree, SubSeq(roots, 1, Len(roots) - 1)),
                  analyzeProjectControllers(tree, roots[Len(roots)]))

NoSpec == [title |-> Null]

\* The document of the project made of all its controllers: their
\* dictionaries assigned onto one, the paths built from them.
ProjectSpec(project, all) ==
    LET RECURSIVE AllSchemas(_, _)
        AllSchemas(i, allSchemas) ==
            IF i > Len(all.controllers) THEN allSchemas
            ELSE AllSchemas(i + 1,
                            ObjectAssign(allSchemas,
                                         all.controllers[i].schemas))
    IN  IF all.threw THEN [threw |-> TRUE, spec |-> NoSpec]
        ELSE [threw |-> FALSE,
              spec |->
                [title |-> project.name,
                 paths |-> buildPathsFromControllers(all.controllers,
                                                     project.basePath),
                 schemas |-> AllSchemas(1, EmptyMap),
                 dependencies |-> project.dependencies,
                 servers |-> IF Truthy(project.serviceUrl)
                               THEN <<project.serviceUrl>> ELSE <<>>]]

\* The controllers of every library of the workspace, then the project's
\* own.
extractSwaggerFromProject(project, projs, tree) ==
    LET IsLibrary(entry) == entry.value.projectType = "library"
        libraries == SelectSeq(projs, IsLibrary)
    IN  ProjectSpec(project,
          AnalyzeRoots(tree,
            [i \in 1..Len(libraries) |-> libraries[i].value.root]
              \o <<project.path>>))

\* The error escapes the loop: no try around the project.
CatchProjectError_Rethrow(generated, project) ==
    [generated EXCEPT !.threw = TRUE]

\* catch (error) { console.error(`Error procesando ${project.name}`) }
CatchProjectError(generated, project) ==
    [generated EXCEPT
       !.errors = Append(@, [where |-> "generateIndividualSpecs",
                             project |-> project.name,
                             error |-> "RangeError"])]

\* One project of this.apiProjects after the other, each in its own try.
RECURSIVE generateIndividualSpecs(_, _, _)
generateIndividualSpecs(found, projs, tree) ==
    LET Process(generated, project, extracted) ==
            IF generated.threw THEN generated
            ELSE IF extracted.threw
              THEN CatchProjectError(generated, project)
            ELSE [generated EXCEPT
                    !.specs = MapSet(@, project.name, extracted.spec)]
    IN  IF found = <<>>
          THEN [specs |-> <<>>, errors |-> <<>>, threw |-> FALSE]
        ELSE Process(generateIndividualSpecs(
                       SubSeq(found, 1, Len(found) - 1), projs, tree),
                     found[Len(found)],
                     extractSwaggerFromProject(found[Len(found)], projs,
                                               tree))

\* generate(), given this.apiProjects as its discoverApiProjects left it.
generate(found, projs, tree) ==
    IF found = <<>>
      THEN [specs |-> <<>>, errors |-> <<>>, threw |-> TRUE]
      ELSE generateIndividualSpecs(found, projs, tree)

\* Object.values(individualSpecs)
generateAllSwaggerDocuments(individualSpecs) ==
    [i \in 1..Len(individualSpecs) |-> individualSpecs[i].value]

----------------------------------------------------------------------------
(* combineOpenAPIDocuments, convertToSwagger2 *)

EmptySchemes == [n \in {} |-> [type |-> "", name |-> "", in |-> ""]]

EmptyPaths == [k \in {} |-> EmptyPathItem]

\* The entries already merged stay; only new keys are added.
MergeDocument_KeepFirst(combined, doc) ==
    [combined EXCEPT !.paths = ObjectAssign(doc.paths, @),
                     !.schemas = ObjectAssign(doc.schemas, @)]

\* The body of documents.forEach; a service document has no
\* components.securitySchemes, so the third Object.assign is not reached.
MergeDocument(combined, doc) ==
    [combined EXCEPT !.paths = ObjectAssign(@, doc.paths),
                     !.schemas = ObjectAssign(@, doc.schemas)]

\* documents.forEach over the base document.
RECURSIVE combineOpenAPIDocuments(_)
combineOpenAPIDocuments(docs) ==
    IF docs = <<>>
      THEN [openapi |-> "3.0.0", paths |-> EmptyPaths,
            schemas |-> EmptyMap, securitySchemes |-> EmptySchemes]
      ELSE MergeDocument(combineOpenAPIDocuments(
                           SubSeq(docs, 1, Len(docs) - 1)),
                         docs[Len(docs)])

\* limits: x-google-management.quota.limits
NoManagement == [present |-> FALSE, limits |-> <<>>]

\* Converter.convert from openapi_3 to swagger_2: components.schemas become
\* definitions, components.securitySchemes securityDefinitions, and a
\* reference into components.schemas a reference into definitions.
convertToSwagger2(openApiDocument) ==
    LET RECURSIVE fixRefs(_)
        fixRefs(s) ==
            CASE s.kind = "ref" ->
                   [s EXCEPT !.prefix = IF @ = "#/components/schemas/"
                                          THEN "#/definitions/" ELSE @]
              [] s.kind = "array" -> [s EXCEPT !.items = fixRefs(@)]
              [] s.kind = "object" ->
                   [s EXCEPT !.properties =
                      [n \in DOMAIN s.properties |->
                         fixRefs(s.properties[n])]]
              [] OTHER -> s
        Operation(op) ==
            [op EXCEPT
               !.parameters =
                  [k \in 1..Len(op.parameters) |->
                     [op.parameters[k] EXCEPT !.schema = fixRefs(@)]],
               !.responses =
                  [c \in DOMAIN op.responses |->
                     [op.responses[c] EXCEPT !.schema = fixRefs(@)]]]
    IN  [swagger |-> "2.0",
         management |-> NoManagement,
         paths |-> [k \in DOMAIN openApiDocument.paths |->
                      [m \in DOMAIN openApiDocument.paths[k] |->
                         Operation(openApiDocument.paths[k][m])]],
         definitions |-> [n \in DOMAIN openApiDocument.schemas |->
                            fixRefs(openApiDocument.schemas[n])],
         securityDefinitions |-> openApiDocument.securitySchemes,
         security |-> NoSecurity]
----------------------------------------------------------------------------
(* enhanceSpecificationForGoogleCloud *)

HTTP_METHODS ==
    {"get", "post", "put", "delete", "patch", "options", "head", "trace"}

\* The name of the scheme in place of the token.
PROTOCOL_HTTP_Scheme == "http"

PROTOCOL_HTTP == "http/1.1"

PROTOCOL_H2 == "h2"

\* The quota of the reference value, whatever the configuration says.
addGoogleCloudManagement_Standard(spec, cfg) ==
    [spec EXCEPT !.management =
       [present |-> TRUE,
        limits |-> <<[name |-> "RequestsPerMinutePerProject",
                      STANDARD |-> DefaultRateLimit]>>]]

\* info['x-google-management']: the metrics are constant and left out, the
\* quota has one limit.
addGoogleCloudManagement(spec, cfg) ==
    [spec EXCEPT !.management =
       [present |-> TRUE,
        limits |-> <<[name |-> "RequestsPerMinutePerProject",
                      STANDARD |-> cfg.rateLimitPerMinute]>>]]

ApiKeyScheme == [type |-> "apiKey", name |-> "x-api-key", in |-> "header"]

\* [{ x_api_key: [] }]
ApiKeySecurity == <<"x_api_key">>

\* Adds the header key to whatever definitions the document has.
addSecuritySchemes(spec) ==
    [spec EXCEPT
       !.securityDefinitions =
          ObjectAssign(@, [n \in {"x_api_key"} |-> ApiKeyScheme]),
       !.security = ApiKeySecurity]

NoService == [name |-> Null, urlEnvVar |-> <<>>, pathPrefix |-> <<>>]

\* The services whose prefix the path starts with, by position.
MatchingServices(pathKey, svcs) ==
    { i \in 1..Len(svcs) : startsWith(pathKey, svcs[i].pathPrefix) }

\* A path of no service falls to the first service of the list.
findServiceForPath_Default(pathKey, svcs) ==
    IF MatchingServices(pathKey, svcs) # {}
      THEN svcs[FirstOf(MatchingServices(pathKey, svcs))]
    ELSE IF svcs # <<>> THEN svcs[1]
    ELSE NoService

\* services.find(...): the first of them in list order.
findServiceForPath(pathKey, svcs) ==
    IF MatchingServices(pathKey, svcs) # {}
      THEN svcs[FirstOf(MatchingServices(pathKey, svcs))]
      ELSE NoService

\* Every operation under an HTTP method whose path has a service gets the
\* backend of that service and, if it has none, the default security.
addBackendConfiguration(spec, serviceUrls, cfg, svcs) ==
    LET Backend(service) ==
            [address |-> IF service.urlEnvVar \in DOMAIN serviceUrls
                           THEN serviceUrls[service.urlEnvVar]
                           ELSE Undefined,
             protocol |-> IF cfg.protocol = "https" THEN PROTOCOL_H2
                          ELSE PROTOCOL_HTTP,
             path_translation |-> "APPEND_PATH_TO_ADDRESS"]
        Configure(operation, service) ==
            IF service # NoService
              THEN [operation EXCEPT
                      !.backend = Backend(service),
                      !.security = IF @ # NoSecurity THEN @
                                   ELSE ApiKeySecurity]
              ELSE operation
    IN  [spec EXCEPT !.paths =
           [k \in DOMAIN spec.paths |->
              [m \in DOMAIN spec.paths[k] |->
                 IF m \in HTTP_METHODS
                   THEN Configure(spec.paths[k][m],
                                  findServiceForPath(k, svcs))
                   ELSE spec.paths[k][m]]]]

\* e: process.env, read again for the URL of each service.
enhanceSpecificationForGoogleCloud(spec, cfg, svcs, e) ==
    LET EnvOf(key) ==
            IF \E i \in 1..Len(e) : e[i].name = key
              THEN e[CHOOSE i \in 1..Len(e) : e[i].name = key].value
              ELSE Undefined
        serviceUrls ==
            [k \in { svcs[i].urlEnvVar :
                       i \in { j \in 1..Len(svcs) :
                                 Truthy(EnvOf(svcs[j].urlEnvVar)) } } |->
               EnvOf(k)]
    IN  addBackendConfiguration(
          addSecuritySchemes(addGoogleCloudManagement(spec, cfg)),
          serviceUrls, cfg, svcs)

----------------------------------------------------------------------------
(* main(): where it starts *)

Running == -1

NoDocument == [paths |-> EmptyPaths]

\* The generator and main() before anything ran.
PipelineStart ==
    /\ projects = <<>>
    /\ serviceConfigs = <<>>
    /\ apiProjects = <<>>
    /\ config = NoConfig
    /\ services = <<>>
    /\ documents = <<>>
    /\ combinedDocument = NoDocument
    /\ swaggerDocument = NoDocument
    /\ enhancedSpec = NoDocument
    /\ outputFile = NoDocument
    /\ exitCode = Running
    /\ log = <<>>

\* No run of main().
PipelineIdle ==
    /\ configEnv = [protocol |-> "https", rateLimitPerMinute |-> ""]
    /\ graph = InvalidGraph
    /\ env = <<>>
    /\ files = FileTree(<<>>)
    /\ pc = "idle"
    /\ PipelineStart
----------------------------------------------------------------------------
(* Specification of the route analyzer: one controller with one decorated  *)
(* method, analysed and then filed under its path.                         *)

NoRoute == [analyzed |-> FALSE]

NoPaths == [built |-> FALSE]

Args ==
    { <<>>,
      <<[decorator |-> "Param", name |-> <<"i">>, type |-> "string"]>>,
      <<[decorator |-> "Query", name |-> <<"u">>, type |-> "string"],
        [decorator |-> "Body", name |-> <<"i">>, type |-> "User"]>> }

RouteIdle ==
    /\ ctlBasePath = <<>>
    /\ ctlRoutePath = <<>>
    /\ ctlParams = <<>>
    /\ route = NoRoute
    /\ pathItem = NoPaths

RouteInit ==
    /\ ResolveIdle
    /\ ctlBasePath \in PathsUpTo(MaxBaseSegs)
    /\ ctlRoutePath \in PathsUpTo(MaxRouteSegs)
    /\ ctlParams \in Args
    /\ route = NoRoute
    /\ pathItem = NoPaths
    /\ PipelineIdle

\* The controller file under analysis.
ControllerUnderTest ==
    [className |-> "C", basePath |-> ctlBasePath, tags |-> {"t"},
     methods |-> <<[name |-> "m", http |-> "get", routePath |-> ctlRoutePath,
                    args |-> ctlParams, responses |-> <<>>]>>]

AnalyzeControllerFile ==
    /\ ~route.analyzed
    /\ route' = [analyzed |-> TRUE,
                 info |-> analyzeControllerFile(ControllerUnderTest)]
    /\ UNCHANGED <<ctlBasePath, ctlRoutePath, ctlParams, pathItem>>
    /\ UNCHANGED <<resolveVars, pipelineVars>>

BuildPathsFromControllers ==
    /\ route.analyzed
    /\ ~pathItem.built
    /\ pathItem' = [built |-> TRUE,
                    paths |-> buildPathsFromControllers(<<route.info>>,
                                                        <<"/", "s">>)]
    /\ UNCHANGED <<ctlBasePath, ctlRoutePath, ctlParams, route>>
    /\ UNCHANGED <<resolveVars, pipelineVars>>

RouteNext == AnalyzeControllerFile \/ BuildPathsFromControllers

SpecRoute == RouteInit /\ [][RouteNext]_vars

----------------------------------------------------------------------------
(* Specification of the schema builder: a sequence of calls on one         *)
(* dictionary, as extractParameters and extractResponses make them.        *)

\* The types a route can name as its body or response type.
RootTypes == TypeIds \ {"() => number", "() => boolean"}

ResolveInit ==
    /\ ResolveIdle
    /\ RouteIdle
    /\ PipelineIdle

Resolve(t) ==
    /\ Len(calls) < MaxCalls
    /\ ~overflowed
    /\ LET r == generateSchemaForType(t, schemas, 1) IN
         /\ schemas' = r.schemas
         /\ results' = Append(results, r.schema)
         /\ overflowed' = r.overflow
    /\ calls' = Append(calls, t)
    /\ UNCHANGED <<routeVars, pipelineVars>>

ResolveNext == \E t \in RootTypes : Resolve(t)

SpecResolve == ResolveInit /\ [][ResolveNext]_vars

----------------------------------------------------------------------------
(* Specification of a run of main(): one action for each of its steps *)

PipelineInit ==
    /\ ResolveIdle
    /\ RouteIdle
    /\ configEnv \in ConfigEnvironments
    /\ graph \in Graphs
    /\ env \in Environments
    /\ files \in FileTrees
    /\ pc = "buildConfig"
    /\ PipelineStart

\* catch (error) { console.error(...); process.exit(1) }
Exit1(where, error) ==
    /\ pc' = "exited"
    /\ exitCode' = 1
    /\ log' = Append(log, [where |-> where, project |-> Null,
                           error |-> error])

BuildConfig ==
    LET Done(built) ==
            IF built.exited
              THEN /\ Exit1("buildConfig", "ValidationError")
                   /\ UNCHANGED config
              ELSE /\ config' = built.value
                   /\ pc' = "construct"
                   /\ UNCHANGED <<exitCode, log>>
    IN  /\ pc = "buildConfig"
        /\ Done(buildConfig(configEnv))
        /\ UNCHANGED <<services, documents, combinedDocument,
                       swaggerDocument, enhancedSpec, outputFile>>
        /\ UNCHANGED <<resolveVars, routeVars, inputVars, generatorVars>>

\* new NxBasedOpenApiGenerator()
Construct ==
    /\ pc = "construct"
    /\ IF loadNxWorkspace(graph).threw
         THEN /\ Exit1("main", "WorkspaceError")
              /\ UNCHANGED <<projects, serviceConfigs>>
         ELSE /\ projects' = loadNxWorkspace(graph).projects
              /\ serviceConfigs' = loadServiceConfigurations(env, projects')
              /\ pc' = "generateServiceConfigs"
              /\ UNCHANGED <<exitCode, log>>
    /\ UNCHANGED <<apiProjects, config, services, documents,
                   combinedDocument, swaggerDocument, enhancedSpec,
                   outputFile>>
    /\ UNCHANGED <<resolveVars, routeVars, inputVars>>

\* The service configurations are used up by the first discovery.
GenerateServiceConfigs_Consuming ==
    /\ pc = "generateServiceConfigs"
    /\ apiProjects' = discoverApiProjects(projects, serviceConfigs,
                                          graph, apiProjects)
    /\ serviceConfigs' = <<>>
    /\ IF generateServiceConfigs(apiProjects', serviceConfigs) = <<>>
         THEN /\ Exit1("main", "NoServices")
              /\ UNCHANGED services
         ELSE /\ services' = generateServiceConfigs(apiProjects',
                                                    serviceConfigs)
              /\ pc' = "generateAllSwaggerDocuments"
              /\ UNCHANGED <<exitCode, log>>
    /\ UNCHANGED <<projects, config, documents, combinedDocument,
                   swaggerDocument, enhancedSpec, outputFile>>
    /\ UNCHANGED <<resolveVars, routeVars, inputVars>>

\* The service list is taken as it comes, without the test on its length.
GenerateServiceConfigs_Unchecked ==
    /\ pc = "generateServiceConfigs"
    /\ apiProjects' = discoverApiProjects(projects, serviceConfigs,
                                          graph, apiProjects)
    /\ services' = generateServiceConfigs(apiProjects', serviceConfigs)
    /\ pc' = "generateAllSwaggerDocuments"
    /\ UNCHANGED <<projects, serviceConfigs, config, documents,
                   combinedDocument, swaggerDocument, enhancedSpec,
                   outputFile, exitCode, log>>
    /\ UNCHANGED <<resolveVars, routeVars, inputVars>>

\* nxGenerator.generateServiceConfigs(), and the test on its result
GenerateServiceConfigs ==
    LET Done(svcs) ==
            IF svcs = <<>>
              THEN /\ Exit1("main", "NoServices")
                   /\ UNCHANGED services
              ELSE /\ services' = svcs
                   /\ pc' = "generateAllSwaggerDocuments"
                   /\ UNCHANGED <<exitCode, log>>
    IN  /\ pc = "generateServiceConfigs"
        /\ apiProjects' = discoverApiProjects(projects, serviceConfigs,
                                              graph, apiProjects)
        /\ Done(generateServiceConfigs(apiProjects', serviceConfigs))
        /\ UNCHANGED <<projects, serviceConfigs, config, documents,
                       combinedDocument, swaggerDocument, enhancedSpec,
                       outputFile>>
        /\ UNCHANGED <<resolveVars, routeVars, inputVars>>

\* generateAllSwaggerDocuments(nxGenerator): generate() discovers again.
GenerateAllSwaggerDocuments ==
    LET Done(generated) ==
            IF generated.threw
              THEN /\ pc' = "exited"
                   /\ exitCode' = 1
                   /\ log' = log \o generated.errors
                               \o <<[where |-> "main", project |-> Null,
                                     error |-> IF apiProjects' = <<>>
                                                 THEN "NoApiProjects"
                                                 ELSE "RangeError"]>>
                   /\ UNCHANGED documents
              ELSE /\ documents' =
                        generateAllSwaggerDocuments(generated.specs)
                   /\ log' = log \o generated.errors
                   /\ pc' = "combineOpenAPIDocuments"
                   /\ UNCHANGED exitCode
    IN  /\ pc = "generateAllSwaggerDocuments"
        /\ apiProjects' = discoverApiProjects(projects, serviceConfigs,
                                              graph, apiProjects)
        /\ Done(generate(apiProjects', projects, files))
        /\ UNCHANGED <<projects, serviceConfigs, config, services,
                       combinedDocument, swaggerDocument, enhancedSpec,
                       outputFile>>
        /\ UNCHANGED <<resolveVars, routeVars, inputVars>>

CombineOpenAPIDocuments ==
    /\ pc = "combineOpenAPIDocuments"
    /\ combinedDocument' = combineOpenAPIDocuments(documents)
    /\ pc' = "convertToSwagger2"
    /\ UNCHANGED <<config, services, documents, swaggerDocument,
                   enhancedSpec, outputFile, exitCode, log>>
    /\ UNCHANGED <<resolveVars, routeVars, inputVars, generatorVars>>

ConvertToSwagger2 ==
    /\ pc = "convertToSwagger2"
    /\ swaggerDocument' = convertToSwagger2(combinedDocument)
    /\ pc' = "enhanceSpecificationForGoogleCloud"
    /\ UNCHANGED <<config, services, documents, combinedDocument,
                   enhancedSpec, outputFile, exitCode, log>>
    /\ UNCHANGED <<resolveVars, routeVars, inputVars, generatorVars>>

EnhanceSpecificationForGoogleCloud ==
    /\ pc = "enhanceSpecificationForGoogleCloud"
    /\ enhancedSpec' = enhanceSpecificationForGoogleCloud(swaggerDocument,
                                                          config, services,
                                                          env)
    /\ pc' = "writeSwaggerDocument"
    /\ UNCHANGED <<config, services, documents, combinedDocument,
                   swaggerDocument, outputFile, exitCode, log>>
    /\ UNCHANGED <<resolveVars, routeVars, inputVars, generatorVars>>

\* The document is written as it is; main() returns.
WriteSwaggerDocument ==
    /\ pc = "writeSwaggerDocument"
    /\ outputFile' = enhancedSpec
    /\ pc' = "exited"
    /\ exitCode' = 0
    /\ UNCHANGED <<config, services, documents, combinedDocument,
                   swaggerDocument, enhancedSpec, log>>
    /\ UNCHANGED <<resolveVars, routeVars, inputVars, generatorVars>>

PipelineNext ==
    \/ BuildConfig
    \/ Construct
    \/ GenerateServiceConfigs
    \/ GenerateAllSwaggerDocuments
    \/ CombineOpenAPIDocuments
    \/ ConvertToSwagger2
    \/ EnhanceSpecificationForGoogleCloud
    \/ WriteSwaggerDocument

SpecPipeline == PipelineInit /\ [][PipelineNext]_vars

----------------------------------------------------------------------------
(* Specification of the enhancer on its own: a converted document, a list   *)
(* of services and a configuration are given, the document is enhanced and *)
(* written.                                                                *)

FullEnvironment ==
    << [name |-> <<"U">> \o BackendUrlSuffix, value |-> "https://u.run"],
       [name |-> <<"O">> \o BackendUrlSuffix, value |-> "https://o.run"],
       [name |-> <<"O", "_", "D">> \o BackendUrlSuffix,
        value |-> "https://od.run"] >>

\* The services generateServiceConfigs makes of api-u, api-o and api-o-d.
ServiceCatalogue ==
    { [name |-> <<"u">>, urlEnvVar |-> <<"U">> \o BackendUrlSuffix,
       pathPrefix |-> <<"/", "u">>],
      [name |-> <<"o">>, urlEnvVar |-> <<"O">> \o BackendUrlSuffix,
       pathPrefix |-> <<"/", "o">>],
      [name |-> <<"o", "-", "d">>,
       urlEnvVar |-> <<"O", "_", "D">> \o BackendUrlSuffix,
       pathPrefix |-> <<"/", "o", "-", "d">>] }

\* Security definitions as the converter leaves them: a bearer scheme has
\* become an apiKey named Authorization, basic stays basic.
SchemeCatalogue ==
    [n \in {"bearer", "basic", "api_key"} |->
       CASE n = "bearer"  -> [type |-> "apiKey", name |-> "Authorization",
                              in |-> "header"]
         [] n = "basic"   -> [type |-> "basic", name |-> "", in |-> ""]
         [] n = "api_key" -> [type |-> "apiKey", name |-> "key",
                              in |-> "query"]]

\* The health route of `base`, with or without a security requirement of
\* its own.
ConvertedDocuments ==
    { [swagger |-> "2.0",
       management |-> NoManagement,
       paths |-> [k \in {base \o HealthSuffix} |->
                    [m \in {"get"} |->
                       [HealthOperation EXCEPT !.security = sec]]],
       definitions |-> EmptyMap,
       securityDefinitions |-> [n \in S |-> SchemeCatalogue[n]],
       security |-> NoSecurity] :
        base \in {<<"/", "u">>, <<"/", "o", "-", "d">>},
        sec \in {NoSecurity, <<"bearer">>},
        S \in SUBSET DOMAIN SchemeCatalogue }

EnhanceInit ==
    /\ ResolveIdle
    /\ RouteIdle
    /\ configEnv = [protocol |-> "https", rateLimitPerMinute |-> ""]
    /\ graph = InvalidGraph
    /\ files = FileTree(<<>>)
    /\ env = FullEnvironment
    /\ projects = <<>>
    /\ serviceConfigs = <<>>
    /\ apiProjects = <<>>
    /\ config \in [protocol : {"http", "https"},
                   rateLimitPerMinute : {DefaultRateLimit}]
    /\ services \in { q \in SeqsUpTo(ServiceCatalogue, MaxServices) :
                        DistinctNames(q) }
    /\ documents = <<>>
    /\ combinedDocument = NoDocument
    /\ swaggerDocument \in ConvertedDocuments
    /\ enhancedSpec = NoDocument
    /\ outputFile = NoDocument
    /\ pc = "enhanceSpecificationForGoogleCloud"
    /\ exitCode = Running
    /\ log = <<>>

EnhanceNext ==
    \/ EnhanceSpecificationForGoogleCloud
    \/ WriteSwaggerDocument

SpecEnhance == EnhanceInit /\ [][EnhanceNext]_vars
----------------------------------------------------------------------------
(* Properties of the schema builder *)

\* The types the traversal descends into from t: the element of an array,
\* or the class and interface members of an object type.
Visits(t) ==
    IF TypeTable[t].symbolName = "Date" THEN {}
    ELSE IF TypeTable[t].numberIndexType # NoType
      THEN {TypeTable[t].numberIndexType}
    ELSE { TypeTable[t].properties[i].type :
             i \in { j \in 1..Len(TypeTable[t].properties) :
                       LET p == TypeTable[t].properties[j] IN
                         /\ p.hasValueDeclaration
                         /\ TypeTable[p.type].flags = "Object"
                         /\ TypeTable[p.type].isClassOrInterface } }

RECURSIVE ReachedFrom(_)
ReachedFrom(S) ==
    LET T == S \cup UNION { Visits(t) : t \in S }
    IN  IF T = S THEN S ELSE ReachedFrom(T)

IsStructured(t) ==
    /\ TypeTable[t].symbolName # "Date"
    /\ TypeTable[t].numberIndexType = NoType
    /\ TypeTable[t].isClassOrInterface

\* The structured type names the calls made so far have reached.
ReachedStructuredNames ==
    { typeToString(t) :
        t \in { u \in ReachedFrom({ calls[i] : i \in 1..Len(calls) }) :
                  IsStructured(u) } }

\* Has a member of its own type, or is one of two types naming each other.
IsCyclic(t) ==
    /\ IsStructured(t)
    /\ \E u \in Visits(t) : t \in ReachedFrom({u})

\* C1: generateSchemaForType terminates for every finite set of payload
\* types: no call exhausts the call stack, and a call on a self-referential
\* or mutually-referential type returns a reference to the type's entry.
C1_ResolveTerminatesWithReference ==
    /\ ~overflowed
    /\ \A i \in 1..Len(calls) :
         IsCyclic(calls[i]) =>
           /\ results[i] = Ref(typeToString(calls[i]))
           /\ typeToString(calls[i]) \in DOMAIN schemas

\* C2: once the calls on a dictionary have returned, the dictionary holds an
\* entry for exactly the structured type names that were reached, and every
\* entry is a completed object schema, never the placeholder.
C2_OneCompletedEntryPerReachedType ==
    ~overflowed =>
      /\ { n \in DOMAIN schemas : IsStructured(n) } = ReachedStructuredNames
      /\ \A n \in DOMAIN schemas : schemas[n].kind = "object"

\* Order was resolved, then Customer, which the first call had already
\* registered through the Order/Customer cycle: both entries are complete and
\* name each other.
C2_Witness ==
    /\ ~overflowed
    /\ \E i, j \in 1..Len(calls) :
         /\ i < j
         /\ calls[i] = "Order"
         /\ calls[j] = "Customer"
         /\ results[j] = Ref("Customer")
    /\ {"Order", "Customer"} \subseteq DOMAIN schemas
    /\ schemas["Order"].properties["customer"] = Ref("Customer")
    /\ schemas["Customer"].properties["lastOrder"] = Ref("Order")

\* The types the calls made so far have reached.
ReachedTypes == ReachedFrom({ calls[i] : i \in 1..Len(calls) })

\* The structured types reached whose entry no other reached type shares.
ReachedOwners ==
    { t \in ReachedTypes :
        /\ IsStructured(t)
        /\ \A u \in ReachedTypes : typeToString(u) = typeToString(t) => u = t }

\* The declared members of t whose type is an array.
ArrayMembers(t) ==
    { i \in 1..Len(TypeTable[t].properties) :
        /\ TypeTable[t].properties[i].hasValueDeclaration
        /\ TypeTable[TypeTable[t].properties[i].type].symbolName = "Array" }

\* The schema of an element type: inline for a primitive, a reference for a
\* structured type, an array for an array.
RECURSIVE ElementSchema(_)
ElementSchema(e) ==
    IF TypeTable[e].flags = "String" THEN Primitive("string")
    ELSE IF TypeTable[e].flags = "Number" THEN Primitive("number")
    ELSE IF TypeTable[e].flags = "Boolean" THEN Primitive("boolean")
    ELSE IF TypeTable[e].symbolName = "Date" THEN DateTime
    ELSE IF TypeTable[e].numberIndexType # NoType
      THEN ArrayOf(ElementSchema(TypeTable[e].numberIndexType))
    ELSE Ref(typeToString(e))

\* C23: for every member of a payload type whose type is an array, the entry
\* of the owning type has a property for that member, an array whose items
\* are the schema or reference of the element type.
C23_ArrayMemberHasArrayProperty ==
    ~overflowed =>
      \A t \in ReachedOwners :
        \A i \in ArrayMembers(t) :
          LET p == TypeTable[t].properties[i] IN
            /\ p.name \in DOMAIN schemas[typeToString(t)].properties
            /\ schemas[typeToString(t)].properties[p.name] =
                 ArrayOf(ElementSchema(TypeTable[p.type].numberIndexType))

\* A primitive or temporal type, or an array of such.
RECURSIVE IsInline(_)
IsInline(t) ==
    \/ TypeTable[t].flags \in {"String", "Number", "Boolean"}
    \/ TypeTable[t].symbolName = "Date"
    \/ /\ TypeTable[t].symbolName = "Array"
       /\ IsInline(TypeTable[t].numberIndexType)

\* C24: a call on a primitive or temporal type, or on an array of one,
\* returns the inline schema, and the dictionary holds entries for structured
\* types only.
C24_PrimitivesAreInline ==
    /\ \A i \in 1..Len(calls) :
         IsInline(calls[i]) => results[i] = ElementSchema(calls[i])
    /\ \A n \in DOMAIN schemas :
         \E t \in TypeIds : IsStructured(t) /\ typeToString(t) = n

\* C26: in every object schema of the dictionary each name listed in
\* `required` is a key of the schema's `properties`.
C26_RequiredNamesAreProperties ==
    \A n \in DOMAIN schemas :
      schemas[n].kind = "object" =>
        \A k \in 1..Len(schemas[n].required) :
          schemas[n].required[k] \in DOMAIN schemas[n].properties

----------------------------------------------------------------------------
(* Properties of the route analyzer *)

\* The path parameters of a built operation, in list order.
RECURSIVE PathParamNames(_, _)
PathParamNames(ps, i) ==
    IF i > Len(ps) THEN <<>>
    ELSE IF ps[i].in = "path"
      THEN <<ps[i]>> \o PathParamNames(ps, i + 1)
      ELSE PathParamNames(ps, i + 1)

\* The placeholders of a bracket-normalised path, left to right.
RECURSIVE BracedNames(_, _)
BracedNames(s, i) ==
    IF i > Len(s) THEN <<>>
    ELSE IF s[i] = "{"
      THEN LET close == CHOOSE j \in i..Len(s) :
                          /\ s[j] = "}"
                          /\ \A k \in i..(j - 1) : s[k] # "}"
           IN  <<SubSeq(s, i + 1, close - 1)>> \o BracedNames(s, close + 1)
      ELSE BracedNames(s, i + 1)

\* C4: a route whose path template (controller prefix plus sub-path) has N
\* placeholders has exactly N path parameters, each required and of type
\* string, in the order of the placeholders.
C4_PathParametersMatchTemplate ==
    pathItem.built =>
      \A path \in DOMAIN pathItem.paths :
        \A m \in DOMAIN pathItem.paths[path] :
          LET ps    == PathParamNames(pathItem.paths[path][m].parameters, 1)
              names == BracedNames(path, 1)
          IN  /\ Len(ps) = Len(names)
              /\ \A k \in 1..Len(ps) :
                   /\ ps[k].name = names[k]
                   /\ ps[k].required
                   /\ ps[k].type = "string"

\* The parameters of the built operations.
BuiltParameters ==
    UNION { UNION { { pathItem.paths[path][m].parameters[k] :
                        k \in 1..Len(pathItem.paths[path][m].parameters) } :
                    m \in DOMAIN pathItem.paths[path] } :
            path \in DOMAIN pathItem.paths }

\* C25: in every built operation a body parameter carries a schema and no
\* type of its own, and a path or query parameter carries its primitive type
\* at its top level and no schema; an argument decorated @Body() gives a
\* parameter located in the body.
C25_ParameterShapeByLocation ==
    pathItem.built =>
      /\ \A p \in BuiltParameters :
           /\ p.in \in {"body", "path", "query"}
           /\ p.in = "body" =>
                p.schema # NoSchema /\ p.type = "<absent>"
           /\ p.in # "body" =>
                p.schema = NoSchema /\ p.type \in {"string", "number", "boolean"}
      /\ (\E i \in 1..Len(ctlParams) : ctlParams[i].decorator = "Body") =>
           \E p \in BuiltParameters : p.in = "body" /\ p.name = <<"body">>

\* An operation was built with a path, a query and a body parameter.
C25_Witness ==
    /\ pathItem.built
    /\ \E path \in DOMAIN pathItem.paths :
         \E m \in DOMAIN pathItem.paths[path] :
           LET ps == pathItem.paths[path][m].parameters IN
             /\ \E k \in 1..Len(ps) :
                  ps[k].in = "body" /\ ps[k].schema = Ref("User")
             /\ \E k \in 1..Len(ps) :
                  ps[k].in = "query" /\ ps[k].type = "string"
             /\ \E k \in 1..Len(ps) :
                  ps[k].in = "path" /\ ps[k].type = "string"

----------------------------------------------------------------------------
(* Properties of a run of main() *)

\* The references inside a schema.
RECURSIVE RefsIn(_)
RefsIn(s) ==
    CASE s.kind = "ref"    -> {s}
      [] s.kind = "array"  -> RefsIn(s.items)
      [] s.kind = "object" ->
           UNION { RefsIn(s.properties[n]) : n \in DOMAIN s.properties }
      [] OTHER             -> {}

\* The references of a document: those of its dictionary and those of the
\* parameters and responses of its operations.
DocumentRefs(paths, dict) ==
    LET OperationRefs(op) ==
            UNION ({ RefsIn(op.parameters[i].schema) :
                       i \in 1..Len(op.parameters) }
                   \cup { RefsIn(op.responses[c].schema) :
                            c \in DOMAIN op.responses })
    IN  UNION ({ RefsIn(dict[n]) : n \in DOMAIN dict }
               \cup { UNION { OperationRefs(paths[k][m]) :
                                m \in DOMAIN paths[k] } :
                        k \in DOMAIN paths })

\* Every reference is of the `#/definitions/` form and names a key of dict.
Resolves(paths, dict) ==
    \A r \in DocumentRefs(paths, dict) :
      /\ r.prefix = "#/definitions/"
      /\ r.name \in DOMAIN dict

\* C3: every $ref of a service specification, of the combined specification
\* and of the written output names a key of the schema dictionary that comes
\* with it, and none has the `#/components/schemas/` form.
C3_EveryRefResolves ==
    /\ \A i \in 1..Len(documents) :
         Resolves(documents[i].paths, documents[i].schemas)
    /\ combinedDocument # NoDocument =>
         Resolves(combinedDocument.paths, combinedDocument.schemas)
    /\ outputFile # NoDocument =>
         Resolves(outputFile.paths, outputFile.definitions)

\* The output of two services was written; its operations and its dictionary
\* refer to User and Order, which `definitions` holds.
C3_Witness ==
    /\ outputFile # NoDocument
    /\ Len(documents) >= 2
    /\ Ref("User") \in DocumentRefs(outputFile.paths, outputFile.definitions)
    /\ Ref("Order") \in DocumentRefs(outputFile.paths, outputFile.definitions)
    /\ {"User", "Order"} \subseteq DOMAIN outputFile.definitions

\* The documents, by position, that hold the path k / the schema name n.
PathHolders(k) ==
    { i \in 1..Len(documents) : k \in DOMAIN documents[i].paths }

SchemaHolders(n) ==
    { i \in 1..Len(documents) : n \in DOMAIN documents[i].schemas }

LastOf(S) == CHOOSE i \in S : \A j \in S : j <= i

LongestMatches(pathKey, svcs) ==
    { i \in MatchingServices(pathKey, svcs) :
        \A j \in MatchingServices(pathKey, svcs) :
          Len(svcs[j].pathPrefix) <= Len(svcs[i].pathPrefix) }

\* C6: a path that starts with the prefixes of more than one service is
\* assigned, by the enhancer, to the service whose prefix is the longest,
\* whatever the order of the service list.
C6_LongestPrefixOwns ==
    enhancedSpec # NoDocument =>
      \A k \in DOMAIN enhancedSpec.paths :
        MatchingServices(k, services) # {} =>
          \E i \in LongestMatches(k, services) :
            findServiceForPath(k, services) = services[i]

\* The backend URL resolved for the project of a service.
ResolvedUrl(service) ==
    LET p == CHOOSE q \in { apiProjects[i] : i \in 1..Len(apiProjects) } :
               replace(q.name, ApiPrefix, <<>>) = service.name
    IN  p.serviceUrl

\* C7: after enhancement every operation whose path lies under the prefix of
\* a service carries a backend whose address is defined and is the resolved
\* URL of the service that owns the path (the longest prefix), never the URL
\* of another service.
C7_BackendOfOwningService ==
    enhancedSpec # NoDocument =>
      \A k \in DOMAIN enhancedSpec.paths :
        \A m \in DOMAIN enhancedSpec.paths[k] \cap HTTP_METHODS :
          \A i \in LongestMatches(k, services) :
            /\ enhancedSpec.paths[k][m].backend # NoBackend
            /\ Truthy(enhancedSpec.paths[k][m].backend.address)
            /\ enhancedSpec.paths[k][m].backend.address =
                 ResolvedUrl(services[i])

\* The tagged applications of the workspace no backend URL was resolved for.
WithoutBackendUrl ==
    { apiProjects[i] :
        i \in { j \in 1..Len(apiProjects) :
                  ~Truthy(apiProjects[j].serviceUrl) } }

\* C9: a tagged application without resolved backend URL contributes nothing
\* to the final specification (no document is generated for it and its
\* health route is not in the output), and a run that has services is not
\* aborted because of it.
C9_NoUrlNoContribution ==
    /\ \A p \in WithoutBackendUrl :
         /\ \A i \in 1..Len(documents) : documents[i].title # p.name
         /\ outputFile # NoDocument =>
              (p.basePath \o HealthSuffix) \notin DOMAIN outputFile.paths
    /\ (pc = "exited" /\ services # <<>> /\ WithoutBackendUrl # {}) =>
         \A i \in 1..Len(log) : log[i].error \notin {"NoServices",
                                                      "NoApiProjects"}

\* The analysis of the project exhausts the call stack.
AnalysisThrows(p) == extractSwaggerFromProject(p, projects, files).threw

C11_ZeroSucceedIsFatal ==
    ( /\ pc = "exited"
      /\ services # <<>>
      /\ apiProjects # <<>>
      /\ \A i \in 1..Len(apiProjects) : AnalysisThrows(apiProjects[i]) ) =>
      /\ exitCode # 0
      /\ outputFile = NoDocument

\* main() got past the configuration and the workspace, and the generator
\* made no service of the tagged applications.
ZeroServicesResolved ==
    /\ pc \notin {"idle", "buildConfig", "construct", "generateServiceConfigs"}
    /\ config # NoConfig
    /\ graph.hasNodes /\ graph.hasDependencies
    /\ services = <<>>

\* C12: when discovery resolves no service the run has ended with a non-zero
\* exit code; no project was analysed, nothing was combined, converted or
\* enhanced, and nothing was written.
C12_NoServicesIsFatal ==
    ZeroServicesResolved =>
      /\ pc = "exited"
      /\ exitCode \notin {0, Running}
      /\ documents = <<>>
      /\ \A i \in 1..Len(log) : log[i].where # "generateIndividualSpecs"
      /\ combinedDocument = NoDocument
      /\ swaggerDocument = NoDocument
      /\ enhancedSpec = NoDocument
      /\ outputFile = NoDocument

\* A tagged application was discovered, no URL was set for it, and the run
\* has ended.
C12_Witness ==
    /\ ZeroServicesResolved
    /\ pc = "exited"
    /\ apiProjects # <<>>
    /\ env # <<>>

\* C13: in a run whose configuration is rejected or whose project graph is
\* not a graph, main() never gets past the step that fails: it ends with exit
\* code 1 before any project is discovered or analysed, and nothing is
\* combined, converted, enhanced or written.
C13_EarlyErrorsAbortBeforeAnalysis ==
    ( \/ ~configSchema(rawConfig(configEnv))
      \/ ~graph.hasNodes
      \/ ~graph.hasDependencies ) =>
      /\ pc \in {"buildConfig", "construct", "exited"}
      /\ pc = "exited" => exitCode = 1
      /\ apiProjects = <<>>
      /\ services = <<>>
      /\ documents = <<>>
      /\ \A i \in 1..Len(log) : log[i].where # "generateIndividualSpecs"
      /\ combinedDocument = NoDocument
      /\ swaggerDocument = NoDocument
      /\ enhancedSpec = NoDocument
      /\ outputFile = NoDocument

\* The configuration was accepted, the graph file had no nodes, and the run
\* has ended.
C13_Witness ==
    /\ pc = "exited"
    /\ config # NoConfig
    /\ ~graph.hasNodes
    /\ exitCode = 1

\* C14: a run in which the variable of a service holds a value that is not
\* an http or https URL writes no output and ends with a non-zero exit code.
C14_MalformedUrlIsFatal ==
    ( \E j \in 1..Len(services) :
        ~serviceUrlSchema[EnvLookup(env, services[j].urlEnvVar)] ) =>
      /\ outputFile = NoDocument
      /\ pc = "exited" => exitCode # 0

\* `<prefix>/health`
HealthPath(prefix) == prefix \o <<"/", "h", "e", "a", "l", "t", "h">>

\* C15: the specification generated for a service holds a GET operation at
\* `<prefix of the service>/health`, whatever controllers were found for it.
C15_HealthRoutePerService ==
    \A i \in 1..Len(documents) :
      \A j \in 1..Len(apiProjects) :
        apiProjects[j].name = documents[i].title =>
          /\ HealthPath(apiProjects[j].basePath) \in DOMAIN documents[i].paths
          /\ "get" \in
               DOMAIN documents[i].paths[HealthPath(apiProjects[j].basePath)]

\* Two specifications were generated: one of a service without any
\* controller, which holds the health route alone, and one of a service with
\* routes of its own.
C15_Witness ==
    /\ \E i \in 1..Len(documents) :
         DOMAIN documents[i].paths = {HealthPath(<<"/", "o", "-", "d">>)}
    /\ \E i \in 1..Len(documents) :
         /\ HealthPath(<<"/", "u">>) \in DOMAIN documents[i].paths
         /\ <<"/", "x">> \in DOMAIN documents[i].paths

\* The services and the documents a generator makes whose apiProjects are
\* empty when it discovers.
FreshServices(projs, configs, g) ==
    generateServiceConfigs(discoverApiProjects(projs, configs, g, <<>>),
                           configs)

FreshDocuments(projs, configs, g, t) ==
    generateAllSwaggerDocuments(
      generate(discoverApiProjects(projs, configs, g, <<>>), projs, t).specs)

\* What main() writes, as a function of the configuration, the generator's
\* Maps, the graph, the environment and the sources.
OutputOf(cfg, projs, configs, g, e, t) ==
    enhanceSpecificationForGoogleCloud(
      convertToSwagger2(
        combineOpenAPIDocuments(FreshDocuments(projs, configs, g, t))),
      cfg, FreshServices(projs, configs, g), e)

WorkspaceTargets(g, n) ==
    IF n \in DOMAIN g.dependencies
      THEN { g.dependencies[n][i].target :
               i \in { j \in 1..Len(g.dependencies[n]) :
                         ~startsWith(g.dependencies[n][j].target,
                                     <<"npm:">>) } }
      ELSE {}

\* S and the projects reachable from S through edges of the graph.
RECURSIVE ReachableProjects(_, _)
ReachableProjects(g, S) ==
    IF UNION { WorkspaceTargets(g, n) : n \in S } \subseteq S THEN S
    ELSE ReachableProjects(g, S \cup UNION { WorkspaceTargets(g, n) :
                                              n \in S })

\* The projects reachable from n through one or more edges.
DependencyClosure(g, n) == ReachableProjects(g, WorkspaceTargets(g, n))

\* C21: the dependencies recorded for a discovered project are the projects
\* of the workspace reachable from it through one or more edges of the
\* graph, npm packages left out.
C21_DependenciesAreTransitiveClosure ==
    \A i \in 1..Len(apiProjects) :
      { apiProjects[i].dependencies[k] :
          k \in 1..Len(apiProjects[i].dependencies) } =
        DependencyClosure(graph, apiProjects[i].name)

\* The roots a specification of the project may draw on: those of the
\* libraries among the projects reachable from it, and its own.
OwnAndDependedRoots(project) ==
    LET IsDependedLibrary(entry) ==
            /\ entry.value.projectType = "library"
            /\ entry.key \in DependencyClosure(graph, project.name)
        libraries == SelectSeq(projects, IsDependedLibrary)
    IN  [i \in 1..Len(libraries) |-> libraries[i].value.root]
          \o <<project.path>>

\* The specification made of the controllers under those roots alone.
SpecOfOwnAndDepended(project) ==
    ProjectSpec(project, AnalyzeRoots(files, OwnAndDependedRoots(project))).spec

\* C22: every path and every schema of the specification of a service is one
\* the controllers under the service's own root and under the libraries it
\* depends on give; a library it does not depend on adds nothing.
C22_OnlyOwnAndDependedSources ==
    \A i \in 1..Len(documents) :
      \A j \in 1..Len(apiProjects) :
        apiProjects[j].name = documents[i].title =>
          /\ DOMAIN documents[i].paths \subseteq
               DOMAIN SpecOfOwnAndDepended(apiProjects[j]).paths
          /\ DOMAIN documents[i].schemas \subseteq
               DOMAIN SpecOfOwnAndDepended(apiProjects[j]).schemas

\* C27: every operation of a service document is in the combined document
\* under its path and method, as the service gave it unless another document
\* defines the same path and method.
C27_CombineKeepsEveryOperation ==
    combinedDocument # NoDocument =>
      \A i \in 1..Len(documents) :
        \A k \in DOMAIN documents[i].paths :
          \A m \in DOMAIN documents[i].paths[k] :
            /\ k \in DOMAIN combinedDocument.paths
            /\ m \in DOMAIN combinedDocument.paths[k]
            /\ \/ combinedDocument.paths[k][m] = documents[i].paths[k][m]
               \/ \E j \in 1..Len(documents) :
                    /\ j # i
                    /\ k \in DOMAIN documents[j].paths
                    /\ m \in DOMAIN documents[j].paths[k]

\* The operations of the combined document, by path and method.
CombinedOperations ==
    UNION { { <<k, m>> : m \in DOMAIN combinedDocument.paths[k] } :
            k \in DOMAIN combinedDocument.paths }

\* C28: no two operations of the combined document have the same operation
\* identifier, the health operations of the services included.
C28_OperationIdsAreUnique ==
    combinedDocument # NoDocument =>
      \A a, b \in CombinedOperations :
        a # b =>
          combinedDocument.paths[a[1]][a[2]].operationId #
            combinedDocument.paths[b[1]][b[2]].operationId

\* The positions of apiProjects that hold the project of the name.
DiscoveredAs(projectName) ==
    { i \in 1..Len(apiProjects) : apiProjects[i].name = projectName }

\* C29: whatever calls of generateServiceConfigs and generate were made, the
\* list of discovered projects holds each tagged application once.
C29_EachProjectDiscoveredOnce ==
    apiProjects # <<>> =>
      \A k \in 1..Len(projects) :
        (/\ projects[k].value.projectType = "application"
         /\ GatewayTag \in projects[k].value.tags)
          => Cardinality(DiscoveredAs(projects[k].key)) = 1

\* The project a *_BACKEND_URL variable names exactly: `api-` and the prefix
\* of the variable in lower case, with a dash for every underscore.
ExactProjectOf(key) ==
    ApiPrefix \o replaceEach(toLowerCase(SubSeq(key, 1, Len(key) - 1)),
                             "_", "-")

\* The variables of the environment that name the project exactly.
ExactVariablesOf(projectName) ==
    { i \in 1..Len(env) :
        /\ Len(env[i].name) > 1
        /\ endsWith(env[i].name, BackendUrlSuffix)
        /\ env[i].value # ""
        /\ ExactProjectOf(env[i].name) = projectName }

\* The environment read the other way round.
ReversedEnv == [i \in 1..Len(env) |-> env[Len(env) + 1 - i]]

\* The bindings of a Map, without their order.
Bindings(m) == { <<m[i].key, m[i].value.url>> : i \in 1..Len(m) }

\* C30: a project that a variable names exactly is bound to the URL of that
\* variable whatever other variables are read after it, and the bindings are
\* the same when the variables are read in the other order.
C30_ExactBindingIsKept ==
    serviceConfigs # <<>> =>
      /\ \A k \in 1..Len(serviceConfigs) :
           \A i \in ExactVariablesOf(serviceConfigs[k].key) :
             /\ serviceConfigs[k].value.envVar = env[i].name
             /\ serviceConfigs[k].value.url = env[i].value
      /\ Bindings(serviceConfigs) =
           Bindings(loadServiceConfigurations(ReversedEnv, projects))

----------------------------------------------------------------------------
(* Properties of the enhancer *)

\* The security definitions the platform does not take: anything but oauth2
\* and an apiKey whose name and location are on the allow-list.
Unsupported(scheme) ==
    /\ scheme.type # "oauth2"
    /\ ~ /\ scheme.type = "apiKey"
         /\ <<scheme.name, scheme.in>> \in
              { <<"key", "query">>, <<"api_key", "query">>,
                <<"x-api-key", "header">> }

Unowned ==
    { k \in DOMAIN enhancedSpec.paths : MatchingServices(k, services) = {} }

\* C16: an operation whose path starts with the prefix of no service is left
\* without a backend by the enhancer, and a run that enhanced its
\* specification ends with exit code 0 and the enhanced specification written.
C16_UnownedRouteHasNoBackend ==
    enhancedSpec # NoDocument =>
      /\ \A k \in Unowned :
           \A m \in DOMAIN enhancedSpec.paths[k] :
             enhancedSpec.paths[k][m].backend = NoBackend
      /\ pc = "exited" => /\ exitCode = 0
                          /\ outputFile = enhancedSpec

\* The run has ended well; its output holds a path of no service next to a
\* path that has a backend.
C16_Witness ==
    /\ pc = "exited"
    /\ exitCode = 0
    /\ enhancedSpec # NoDocument
    /\ Unowned # {}
    /\ \E k \in DOMAIN outputFile.paths \ Unowned :
         \E m \in DOMAIN outputFile.paths[k] :
           outputFile.paths[k][m].backend # NoBackend

\* C17: after enhancement every operation has a security requirement of its
\* own: the one the converted document gave it, or, if it had none, the
\* default API-key requirement.
C17_EveryOperationHasSecurity ==
    enhancedSpec # NoDocument =>
      \A k \in DOMAIN enhancedSpec.paths :
        \A m \in DOMAIN enhancedSpec.paths[k] :
          enhancedSpec.paths[k][m].security =
            IF swaggerDocument.paths[k][m].security # NoSecurity
              THEN swaggerDocument.paths[k][m].security
              ELSE <<"x_api_key">>

\* The backends of the enhanced specification.
Backends ==
    UNION { { enhancedSpec.paths[k][m].backend :
                m \in DOMAIN enhancedSpec.paths[k] \cap HTTP_METHODS } :
            k \in DOMAIN enhancedSpec.paths } \ {NoBackend}

\* C18: the protocol of every backend of the enhanced specification is `h2`
\* when BACKEND_PROTOCOL is `https` and `http/1.1` when it is `http`; no
\* backend is written for any other value, and no other token appears.
C18_ProtocolTokenOfConfiguredProtocol ==
    enhancedSpec # NoDocument =>
      /\ configEnv.protocol \in {"http", "https"}
      /\ \A b \in Backends :
           b.protocol = IF configEnv.protocol = "https" THEN "h2"
                        ELSE "http/1.1"

\* A run under BACKEND_PROTOCOL=http has written backends, all of them with
\* the token `http/1.1`.
C18_Witness ==
    /\ outputFile # NoDocument
    /\ configEnv.protocol = "http"
    /\ Cardinality(Backends) >= 2
    /\ \A b \in Backends : b.protocol = "http/1.1"

\* What RATE_LIMIT_PER_MINUTE configures: the number it holds, or the default
\* when it is not set.
ConfiguredRateLimit ==
    IF configEnv.rateLimitPerMinute = "" THEN 10000
    ELSE parseInt[configEnv.rateLimitPerMinute]

\* C19: the management block of the enhanced specification declares one
\* quota limit; its value is the configured rate limit, which lies in
\* 1..1000000 (a run under any other value enhances nothing).
C19_OneQuotaOfConfiguredValue ==
    enhancedSpec # NoDocument =>
      /\ enhancedSpec.management.present
      /\ Len(enhancedSpec.management.limits) = 1
      /\ enhancedSpec.management.limits[1].STANDARD = ConfiguredRateLimit
      /\ ConfiguredRateLimit \in 1..1000000

\* A run under RATE_LIMIT_PER_MINUTE=500 has written its output.
C19_Witness ==
    /\ outputFile # NoDocument
    /\ configEnv.rateLimitPerMinute = "500"
    /\ outputFile.management.limits[1].STANDARD = 500

====
